---- MODULE Spec2Model ----
(***************************************************************************)
(* Model of the Pupil Neon agent (src/eye_tracker/pupil_neon.py): the      *)
(* command loop of PupilNeonAgent.run with the shutdown sequence of main,  *)
(* and the health thread PupilNeonAgent._health_loop, interleaved at the   *)
(* granularity of one access to shared state (agent_status, device, the    *)
(* stop event) or one call on the device per step.                         *)
(***************************************************************************)
EXTENDS Integers, Sequences, FiniteSets, TLC

\* ------------------------------------------------------------------ bounds
MaxConds == 3           \* condition commands recorded in the trace of one recording
MaxId == 4              \* web server: /start is taken while next_id is below it
MaxStops == 2           \* web server: /stop requests waiting at the same time
MaxPublished == 3       \* web server: payloads recorded on topic ws_command
MaxEntries == 2         \* web server: condition entries of one acquisition

\* --------------------------------------------------------------- constants
None == 0               \* Python's None for the device reference
Handle == 1             \* the device object discover_one_device returns
NoLabel == "None"       \* Python's None for last_condition_event

Labels == {"A", "B"}

\* AgentStatus (enum), by name
AgentStatus == {"STARTUP", "SHUTDOWN", "IDLE", "CONNECTED", "RECORDING"}

\* the command tokens the web server and operators put on the bus
Commands == {"pupil_neon_connect", "pupil_neon_disconnect", "start", "stop",
             "condition", "connect", "disconnect"}

\* the command values of the messages received: the tokens above, some of them
\* in other letter case, and a value run() knows nothing of
RawTokens == Commands \cup {"START", "Stop", "PUPIL_NEON_CONNECT", "bogus"}

\* message.get('command') of a record without that field
Missing == "<missing>"

\* the payloads last_message() returns: a dict, or anything else ("text")
Shapes == {"dict", "text"}

\* what a call on the device (or on discovery) can do
RpcResults == {"ok", "raise"}

VARIABLES
    agent_status,           \* self.agent_status
    device,                 \* self.device: None or a handle
    last_condition_event,   \* self.last_condition_event: NoLabel or a label
    stop_health,            \* self._stop_health (threading.Event)
    pc,                     \* position of the main thread (__init__, run, main)
    ret,                    \* caller of disconnect_device: "run" or "main"
    msg,                    \* the command message being handled
    matched,                \* the subject value of `match self.agent_status`
    hpc,                    \* position of the health thread ("none": not alive)
    estAbandoned,           \* an estimate_time_offset call that timed out is still running
    lastPub,                \* payload of the last publish on topic pupil_neon
    trace,                  \* the recording_start call, the commands dispatched and the
                            \* calls made on the device since the handle was bound or the
                            \* recording started, then the steps of the shutdown
    exit_code,              \* main's exit_code
    probe,                  \* health thread: outcome of world_sensor() in this cycle
    discoverBy,             \* thread of the latest discover_one_device call
    watch,                  \* the history that is recorded: "calls", "release" or "bus"
                            \* ("web": the web server is the program that runs)
    acquisitions,           \* web server: the index, acquisition id -> record
    current_acquisition_id, \* web server: id of the running acquisition, or NoId
    next_id,                \* web server: number of the next acquisition id
    mads_agent,             \* web server: the bus agent was initialised
    stopping,               \* web server: the /stop requests waiting for their publish
    ws_command,             \* web server: the payloads published on topic ws_command
    assigned,               \* web server: the ids /start has generated
    webLast                 \* web server: the request handled last and its response

\* the state of the web server
webVars == <<acquisitions, current_acquisition_id, next_id, mads_agent, stopping,
             ws_command, assigned, webLast>>

vars == <<agent_status, device, last_condition_event, stop_health, pc, ret, msg,
          matched, hpc, estAbandoned, lastPub, trace, exit_code, probe, discoverBy,
          watch, webVars>>

\* the state both threads share
ctlShared == <<agent_status, device, last_condition_event, stop_health>>
\* the variables of the health thread alone
monLocal == <<hpc, estAbandoned, probe>>
\* the variables of the main thread alone
ctlLocal == <<last_condition_event, pc, ret, msg, matched, exit_code, discoverBy,
              watch, webVars>>

NoMsg == [command |-> "none", label |-> NoLabel, token |-> "none"]
NoPub == [agent_status |-> "none", error |-> FALSE, raised |-> FALSE]

\* the condition commands a trace records
NumConds(t) == Cardinality({i \in 1..Len(t) : t[i].op = "condition"})

\* an entry of the trace: a command dispatched (op is its token, by "bus"), a
\* call on the device (op "start", "begin", "end", "save" or "close"), the final
\* status ("final") or the bus disconnect ("busdisc"), with its label (the label
\* of a condition command or of an event; for "start", last_condition_event as
\* the recording starts), the thread it ran in and whether it raised
Entry(op, label, by, res) == [op |-> op, label |-> label, by |-> by, res |-> res]

\* the entry of run()'s finally clause: the shutdown begins, with the status then
ShutdownEntry(status) == [op |-> "shutdown", status |-> status]

\* the entries each history keeps
Kept(op) ==
    CASE watch = "calls" -> op \notin {"close", "final", "busdisc", "shutdown"}
      [] watch = "release" -> op \in {"save", "close", "final", "busdisc", "shutdown"}
      [] OTHER -> FALSE

\* ------------------------------------------ the web server: ids and index

\* an acquisition id, a string: "acq_<num>" (form "plain", what /start
\* generates), "acq_0<num>" with leading zeros ("padded"), or a key of the
\* index file that holds no number ("other")
AcqId(form, num) == [form |-> form, num |-> num]

\* Python's None for current_acquisition_id
NoId == AcqId("none", 0)

\* the f-string f"acq_{next_id}" (web_server.py line 433)
FormatId(n) == AcqId("plain", n)

\* int(k.replace("acq_", "").lstrip("0") or "0") succeeds (line 233)
Parses(k) == k.form \in {"plain", "padded"}

\* the greatest element of a set of numbers
MaxOf(S) == CHOOSE x \in S : \A y \in S : y <= x

\* a compute_next_id that counts the keys
compute_next_id_by_count(acq_dict) == Cardinality(DOMAIN acq_dict) + 1

\* compute_next_id, lines 228-238: one more than the greatest number among the
\* keys that parse, keys that do not parse skipped
compute_next_id(acq_dict) ==
    MaxOf({k.num : k \in {j \in DOMAIN acq_dict : Parses(j)}} \cup {0}) + 1

\* a condition entry of a record
ConditionEntry(label, id) == [condition |-> label, condition_id |-> id]

\* a record of the index
Record(status, start_time, conditions) ==
    [status |-> status, start_time |-> start_time, conditions |-> conditions]

\* the keys the index file may hold at the start of the process
IndexKeys == {AcqId("plain", 2), AcqId("padded", 1), AcqId("other", 0)}

\* a record read from the index file; the one of acq_01 holds a condition entry
\* written without a condition_id
IndexRecord(k) ==
    Record("completed", 0,
           IF k.form = "padded" THEN <<ConditionEntry("A", "")>> ELSE <<>>)

EmptyIndex == [k \in {} |-> IndexRecord(k)]

\* load_index(), lines 213-220, at the start of the process
InitialIndexes == {[k \in K |-> IndexRecord(k)] : K \in SUBSET IndexKeys}

\* no request handled yet
NoRequest == [req |-> "none", status |-> "none", id |-> NoId, condition_id |-> ""]

\* a request and its response (for /save_condition with the condition id, as
\* given or taken from the label)
Response(req, status, id) ==
    [req |-> req, status |-> status, id |-> id, condition_id |-> ""]

ConditionResponse(status, id, condition_id) ==
    [req |-> "save_condition", status |-> status, id |-> id,
     condition_id |-> condition_id]

\* a payload on topic ws_command
Payload_ws(command, id, label) == [command |-> command, id |-> id, label |-> label]

\* str.strip() on the condition texts received
strip(text) ==
    CASE text = " A" -> "A"
      [] text = " " -> ""
      [] OTHER -> text

\* trace and lastPub are history variables: they record what the program did and
\* are read by no action. A specification records one history (watch): the
\* commands, events and saves of a recording ("calls"), the saves, closes and
\* the shutdown ("release"), or the publishes ("bus": lastPub, and in the trace
\* the "Connection lost" and "disconnected" publishes ("lost") of the cycles the
\* health thread began and ended while the main thread waited for a message,
\* since the last command was taken; "cycle" marks such a cycle in progress).
Log(e) == trace' = IF Kept(e.op) THEN Append(trace, e) ELSE trace

\* the publishes of the health thread that a trace records
LostOnly(t) == SelectSeq(t, LAMBDA e : e.op = "lost")

\* the health thread begins a cycle
LogCycle ==
    trace' = IF watch # "bus" THEN trace
             ELSE IF pc = "recv"
                  THEN Append(LostOnly(trace), Entry("cycle", NoLabel, "mon", "ok"))
                  ELSE LostOnly(trace)

\* the health thread publishes that the connection is lost
LogLost ==
    trace' = IF watch = "bus" /\ trace # <<>> /\ trace[Len(trace)].op = "cycle"
             THEN Append(LostOnly(trace), Entry("lost", NoLabel, "mon", "ok"))
             ELSE trace

\* a publish whose message is lost
PublishLost(err) == lastPub' = lastPub

\* publish_agent_status(error), _publish_offset_stats: the payload carries the
\* status read at the call; agent.publish() sends it or raises, and the
\* exception is caught and passed over (lines 71-75, 204-208)
Publish(err) ==
    \E raised \in BOOLEAN :
        lastPub' = IF watch = "bus"
                   THEN [agent_status |-> agent_status, error |-> err,
                         raised |-> raised]
                   ELSE lastPub

Init ==
    /\ agent_status = "STARTUP"
    /\ device = None
    /\ last_condition_event = NoLabel
    /\ stop_health = FALSE
    /\ pc = "agent_init"
    /\ ret = "run"
    /\ msg = NoMsg
    /\ matched = "none"
    /\ hpc = "none"
    /\ estAbandoned = FALSE
    /\ lastPub = NoPub
    /\ trace = <<>>
    /\ exit_code = 0
    /\ probe = "none"
    /\ discoverBy = "none"
    /\ watch \in {"calls", "release", "bus", "web"}
    /\ IF watch = "web"
       THEN acquisitions \in InitialIndexes /\ mads_agent \in BOOLEAN
       ELSE acquisitions = EmptyIndex /\ mads_agent = FALSE
    /\ current_acquisition_id = NoId
    /\ next_id = compute_next_id(acquisitions)
    /\ stopping = <<>>
    /\ ws_command = <<>>
    /\ assigned = {}
    /\ webLast = NoRequest

\* ---------------------------------------------------------------- helpers

\* an exception that leaves run(): run's finally, then main's `except Exception`
Crash ==
    /\ pc' = "run_finally"
    /\ exit_code' = 1

\* the messages on the command topic; a condition command carries its label, a
\* string (line 408)
Payloads ==
    {[shape |-> "text", command |-> Missing, label |-> NoLabel]} \cup
    {[shape |-> "dict", command |-> c, label |-> l] :
        c \in RawTokens \cup {Missing, ""}, l \in Labels \cup {NoLabel}}

\* a lower() that leaves the letters as they are
lowerKeepsCase(token) == token

\* str.lower() on the command values received
lower(token) ==
    CASE token = "START" -> "start"
      [] token = "Stop" -> "stop"
      [] token = "PUPIL_NEON_CONNECT" -> "pupil_neon_connect"
      [] OTHER -> token

\* run(), lines 368-378: the command token of a payload, lower-cased; "drop"
\* for a payload that is no dict or has no command (or an empty one)
Intake(payload) ==
    IF payload.shape # "dict" THEN "drop"
    ELSE IF payload.command \in {Missing, ""} THEN "drop"
    ELSE lower(payload.command)

\* a dispatch that also takes the start command in the RECORDING case
DispatchStartWhileRecording(status, command) ==
    CASE status \in {"IDLE", "STARTUP"} ->
            IF command = "pupil_neon_connect" THEN "connect" ELSE "ignore"
      [] status = "CONNECTED" ->
            IF command = "pupil_neon_disconnect" THEN "disconnect"
            ELSE IF command = "start" THEN "start"
            ELSE "ignore"
      [] status = "RECORDING" ->
            IF command = "condition" THEN "condition"
            ELSE IF command = "stop" THEN "stop"
            ELSE IF command = "pupil_neon_disconnect" THEN "stop_disconnect"
            ELSE IF command = "start" THEN "start"
            ELSE "ignore"
      [] OTHER -> "ignore"

\* a dispatch that also takes the stop command in the CONNECTED case
DispatchStopWhileConnected(status, command) ==
    CASE status \in {"IDLE", "STARTUP"} ->
            IF command = "pupil_neon_connect" THEN "connect" ELSE "ignore"
      [] status = "CONNECTED" ->
            IF command = "pupil_neon_disconnect" THEN "disconnect"
            ELSE IF command = "start" THEN "start"
            ELSE IF command = "stop" THEN "stop"
            ELSE "ignore"
      [] status = "RECORDING" ->
            IF command = "condition" THEN "condition"
            ELSE IF command = "stop" THEN "stop"
            ELSE IF command = "pupil_neon_disconnect" THEN "stop_disconnect"
            ELSE "ignore"
      [] OTHER -> "ignore"

\* a dispatch that compares with the tokens connect and disconnect
DispatchBareTokens(status, command) ==
    CASE status \in {"IDLE", "STARTUP"} ->
            IF command = "connect" THEN "connect" ELSE "ignore"
      [] status = "CONNECTED" ->
            IF command = "disconnect" THEN "disconnect"
            ELSE IF command = "start" THEN "start"
            ELSE "ignore"
      [] status = "RECORDING" ->
            IF command = "condition" THEN "condition"
            ELSE IF command = "stop" THEN "stop"
            ELSE IF command = "disconnect" THEN "stop_disconnect"
            ELSE "ignore"
      [] OTHER -> "ignore"

\* run(), lines 383-423: the handler `match self.agent_status` selects for a
\* command token; "ignore" where no case or no if/elif branch applies
Dispatch(status, command) ==
    CASE status \in {"IDLE", "STARTUP"} ->
            IF command = "pupil_neon_connect" THEN "connect" ELSE "ignore"
      [] status = "CONNECTED" ->
            IF command = "pupil_neon_disconnect" THEN "disconnect"
            ELSE IF command = "start" THEN "start"
            ELSE "ignore"
      [] status = "RECORDING" ->
            IF command = "condition" THEN "condition"
            ELSE IF command = "stop" THEN "stop"
            ELSE IF command = "pupil_neon_disconnect" THEN "stop_disconnect"
            ELSE "ignore"
      [] OTHER -> "ignore"

\* a start handler that goes to recording_start at once
HandlerEntrySkipTemplate(handler) ==
    CASE handler = "connect" -> "connect_device"
      [] handler = "disconnect" -> "stop_health_loop"
      [] handler = "start" -> "start_recording"
      [] handler = "condition" -> "send_condition_event"
      [] handler = "stop" -> "stop_recording"
      [] handler = "stop_disconnect" -> "stop_recording"
      [] OTHER -> "recv"

\* first position of each handler
HandlerEntry(handler) ==
    CASE handler = "connect" -> "connect_device"
      [] handler = "disconnect" -> "stop_health_loop"
      [] handler = "start" -> "fill_template"
      [] handler = "condition" -> "send_condition_event"
      [] handler = "stop" -> "stop_recording"
      [] handler = "stop_disconnect" -> "stop_recording"
      [] OTHER -> "recv"

\* a send_condition_event that takes the same label again for a new one
send_condition_branch_resend(last, label) ==
    IF last = NoLabel THEN "begin" ELSE "switch"

\* send_condition_event, lines 175-189: which branch a label takes
send_condition_branch(last, label) ==
    IF last = NoLabel THEN "begin"
    ELSE IF last # label THEN "switch"
    ELSE "noop"

\* a stop_recording that sends no .end event
StopSendsNoEnd(last) == FALSE

\* stop_recording, line 160: an .end event is due before stop-and-save
StopSendsEnd(last) == last # NoLabel

\* ------------------------------------------------- __init__, lines 32-61

\* line 36: self.agent.init() reaches the broker (0) or does not
AgentBusInit ==
    /\ pc = "agent_init"
    /\ \E reached \in BOOLEAN :
         pc' = IF reached THEN "agent_connect" ELSE "agent_init_failed"
    /\ UNCHANGED <<agent_status, device, last_condition_event, stop_health, ret, msg,
                   matched, lastPub, trace, exit_code, discoverBy, watch, webVars>>
    /\ UNCHANGED monLocal

\* lines 37-38: the message on stderr, then the expression `sys.exit`, which
\* names the function and does not call it: line 39 is next
AgentInitFailed ==
    /\ pc = "agent_init_failed"
    /\ pc' = "agent_connect"
    /\ UNCHANGED <<agent_status, device, last_condition_event, stop_health, ret, msg,
                   matched, lastPub, trace, exit_code, discoverBy, watch, webVars>>
    /\ UNCHANGED monLocal

\* line 39: self.agent.connect(); if it raises, the constructor does, main has
\* no agent to shut down (line 444) and exits with code 1
AgentConnect ==
    /\ pc = "agent_connect"
    /\ \E r \in RpcResults :
         IF r = "ok"
         THEN pc' = "init_publish" /\ UNCHANGED exit_code
         ELSE pc' = "exited" /\ exit_code' = 1
    /\ UNCHANGED <<agent_status, device, last_condition_event, stop_health, ret, msg,
                   matched, lastPub, trace, discoverBy, watch, webVars>>
    /\ UNCHANGED monLocal

\* publish the startup status, then agent_status = IDLE (not published)
AgentInit ==
    /\ pc = "init_publish"
    /\ Publish(FALSE)
    /\ pc' = "init_set_idle"
    /\ UNCHANGED <<agent_status, device, last_condition_event, stop_health, ret, msg,
                   matched, trace, exit_code, discoverBy, watch, webVars>>
    /\ UNCHANGED monLocal

AgentSetIdle ==
    /\ pc = "init_set_idle"
    /\ agent_status' = "IDLE"
    /\ pc' = "recv"
    /\ UNCHANGED <<device, last_condition_event, stop_health, ret, msg, matched,
                   lastPub, trace, exit_code, discoverBy, watch, webVars>>
    /\ UNCHANGED monLocal

\* ------------------------------------------------------ run, lines 358-423

\* lines 360-362: the heartbeat, when the period has passed
Heartbeat ==
    /\ pc = "recv"
    /\ Publish(FALSE)
    /\ UNCHANGED <<agent_status, device, last_condition_event, stop_health, pc, ret,
                   msg, matched, trace, exit_code, discoverBy, watch, webVars>>
    /\ UNCHANGED monLocal

\* lines 364-423: a command message arrives, its token is taken and lower-cased
\* and it is dispatched on the status; the bus history also keeps the token as
\* it was received
Receive ==
    /\ pc = "recv"
    /\ \E payload \in Payloads :
         LET c == Intake(payload)
             l == payload.label
             handler == Dispatch(agent_status, c) IN
         /\ handler # "ignore"
         /\ handler = "condition" => NumConds(trace) < MaxConds
         /\ (c = "condition") <=> (l \in Labels)
         /\ msg' = [command |-> c, label |-> l,
                    token |-> IF watch = "bus" THEN payload.command ELSE c]
         /\ matched' = agent_status
         /\ pc' = HandlerEntry(handler)
         /\ IF watch = "bus" THEN trace' = <<>>
            ELSE IF handler = "connect" THEN UNCHANGED trace
            ELSE Log(Entry(c, l, "bus", "ok"))
    /\ UNCHANGED <<agent_status, device, last_condition_event, stop_health, ret,
                   lastPub, exit_code, discoverBy, watch, webVars>>
    /\ UNCHANGED monLocal

\* a payload that is dropped (lines 369-378), or a command that no case handles
\* (or a token run() does not know): the loop goes round with nothing changed
ReceiveIgnored ==
    /\ pc = "recv"
    /\ \E payload \in Payloads : Dispatch(agent_status, Intake(payload)) = "ignore"
    /\ UNCHANGED vars

\* KeyboardInterrupt anywhere in run(): caught at line 426, exit_code stays 0
Interrupt ==
    /\ pc \notin {"agent_init", "agent_init_failed", "agent_connect",
                  "init_publish", "init_set_idle", "run_finally", "main_check_status",
                  "main_check_recording", "main_stop_and_save", "main_set_shutdown",
                  "main_publish", "main_bus_disconnect", "exited"}
    /\ ret = "run"
    /\ pc' = "run_finally"
    /\ UNCHANGED <<agent_status, device, last_condition_event, stop_health, ret, msg,
                   matched, lastPub, trace, exit_code,
                   discoverBy, watch, webVars>>
    /\ UNCHANGED monLocal

\* back to the top of the loop; the message and the match subject are not kept
Return ==
    /\ pc' = "recv"
    /\ msg' = NoMsg
    /\ matched' = "none"

\* ---- connect_device, lines 77-113

\* lines 86-96: discovery raises, finds nothing, or hands out a new handle
ConnectDiscover ==
    /\ pc = "connect_device"
    /\ discoverBy' = "ctl"
    /\ \E found \in {"raise", "none", "device"} :
         pc' = IF found = "device" THEN "connect_get_template"
               ELSE "connect_fail_publish"
    /\ UNCHANGED <<agent_status, device, last_condition_event, stop_health, ret, msg,
                   matched, lastPub, trace, exit_code, watch, webVars>>
    /\ UNCHANGED monLocal

\* lines 99-106: dev.get_template() raises (not caught), returns None, or returns
\* the template and the handle is bound
ConnectGetTemplate ==
    /\ pc = "connect_get_template"
    /\ \E got \in {"raise", "none", "template"} :
         CASE got = "raise" -> Crash /\ UNCHANGED <<device, trace>>
           [] got = "none" ->
                pc' = "connect_fail_publish" /\ UNCHANGED <<device, trace, exit_code>>
           [] got = "template" ->
                /\ device' = Handle
                /\ trace' = <<>>
                /\ pc' = "connect_set_status"
                /\ UNCHANGED exit_code
    /\ UNCHANGED <<agent_status, last_condition_event, stop_health, ret, msg, matched,
                   lastPub, discoverBy, watch, webVars>>
    /\ UNCHANGED monLocal

\* lines 83, 90, 95, 102: publish the error and return False
ConnectFailPublish ==
    /\ pc = "connect_fail_publish"
    /\ Publish(TRUE)
    /\ Return
    /\ UNCHANGED <<agent_status, device, last_condition_event, stop_health, ret,
                   trace, exit_code, discoverBy, watch, webVars>>
    /\ UNCHANGED monLocal

\* line 110
ConnectSetStatus ==
    /\ pc = "connect_set_status"
    /\ agent_status' = "CONNECTED"
    /\ pc' = "connect_publish"
    /\ UNCHANGED <<device, last_condition_event, stop_health, ret, msg, matched,
                   lastPub, trace, exit_code, discoverBy, watch, webVars>>
    /\ UNCHANGED monLocal

\* line 111
ConnectPublish ==
    /\ pc = "connect_publish"
    /\ Publish(FALSE)
    /\ pc' = "start_health_loop"
    /\ UNCHANGED <<agent_status, device, last_condition_event, stop_health, ret, msg,
                   matched, trace, exit_code, discoverBy, watch, webVars>>
    /\ UNCHANGED monLocal

\* a start_health_loop that starts a thread whether or not one is alive
StartHealthLoopAlways ==
    /\ pc = "start_health_loop"
    /\ stop_health' = FALSE
    /\ hpc' = "loop"
    /\ Return
    /\ UNCHANGED <<agent_status, device, last_condition_event, ret,
                   lastPub, trace, exit_code, discoverBy, watch, webVars>>
    /\ UNCHANGED <<estAbandoned, probe>>

\* start_health_loop, lines 290-296: nothing if the thread is alive, else clear
\* the stop event and start a new thread
StartHealthLoop ==
    /\ pc = "start_health_loop"
    /\ IF hpc # "none"
       THEN UNCHANGED <<stop_health, hpc>>
       ELSE /\ stop_health' = FALSE
            /\ hpc' = "loop"
    /\ Return
    /\ UNCHANGED <<agent_status, device, last_condition_event, ret,
                   lastPub, trace, exit_code, discoverBy, watch, webVars>>
    /\ UNCHANGED <<estAbandoned, probe>>

\* ---- stop_health_loop, lines 298-302, called from run's handlers: set the
\* stop event; the join returns when the thread has ended or after 1 s
StopHealthLoop ==
    /\ pc = "stop_health_loop"
    /\ stop_health' = TRUE
    /\ pc' = "disconnect_close"
    /\ UNCHANGED <<agent_status, device, last_condition_event, ret, msg, matched,
                   lastPub, trace, exit_code, discoverBy, watch, webVars>>
    /\ UNCHANGED monLocal

\* ---- disconnect_device, lines 115-128

\* lines 119-123: close the handle if one is bound; an error of close is printed
DisconnectClose ==
    /\ pc = "disconnect_close"
    /\ IF device # None
       THEN Log(Entry("close", NoLabel, "ctl", "ok"))
       ELSE UNCHANGED trace
    /\ pc' = "disconnect_clear"
    /\ UNCHANGED <<agent_status, device, last_condition_event, stop_health, ret, msg,
                   matched, lastPub, exit_code, discoverBy, watch, webVars>>
    /\ UNCHANGED monLocal

\* line 125
DisconnectClear ==
    /\ pc = "disconnect_clear"
    /\ device' = None
    /\ pc' = "disconnect_set_status"
    /\ UNCHANGED <<agent_status, last_condition_event, stop_health, ret, msg, matched,
                   lastPub, trace, exit_code, discoverBy, watch, webVars>>
    /\ UNCHANGED monLocal

\* line 126
DisconnectSetStatus ==
    /\ pc = "disconnect_set_status"
    /\ agent_status' = "IDLE"
    /\ pc' = "disconnect_publish"
    /\ UNCHANGED <<device, last_condition_event, stop_health, ret, msg, matched,
                   lastPub, trace, exit_code, discoverBy, watch, webVars>>
    /\ UNCHANGED monLocal

\* line 127, then back to the caller: run's loop or main's finally
DisconnectPublish ==
    /\ pc = "disconnect_publish"
    /\ Publish(FALSE)
    /\ IF ret = "run"
       THEN Return
       ELSE pc' = "main_set_shutdown" /\ UNCHANGED <<msg, matched>>
    /\ UNCHANGED <<agent_status, device, last_condition_event, stop_health, ret,
                   trace, exit_code, discoverBy, watch, webVars>>
    /\ UNCHANGED monLocal

\* ---- the start command, lines 398-404

\* fill_template, lines 306-309: return if no device is bound, else
\* get_template_data(), whose exception is not caught
FillTemplate ==
    /\ pc = "fill_template"
    /\ IF device = None
       THEN pc' = "start_recording" /\ UNCHANGED exit_code
       ELSE \E res \in RpcResults :
              IF res = "ok"
              THEN pc' = "post_template" /\ UNCHANGED exit_code
              ELSE Crash
    /\ UNCHANGED <<agent_status, device, last_condition_event, stop_health, ret, msg,
                   matched, lastPub, trace, discoverBy, watch, webVars>>
    /\ UNCHANGED monLocal

\* fill_template, lines 313-351: validate the answers and post them; every
\* exception here is caught and printed
PostTemplate ==
    /\ pc = "post_template"
    /\ pc' = "start_recording"
    /\ UNCHANGED <<agent_status, device, last_condition_event, stop_health, ret, msg,
                   matched, lastPub, trace, exit_code,
                   discoverBy, watch, webVars>>
    /\ UNCHANGED monLocal

\* start_recording, line 152: self.device.recording_start(); a new recording
\* starts on the handle and the trace starts again with it
StartRecording ==
    /\ pc = "start_recording"
    /\ IF device = None
       THEN Crash /\ UNCHANGED trace
       ELSE \E res \in RpcResults :
              IF res = "ok"
              THEN /\ trace' = IF Kept("start")
                                 THEN <<Entry("start", last_condition_event, "ctl", "ok")>>
                                 ELSE <<>>
                   /\ pc' = "start_set_status"
                   /\ UNCHANGED exit_code
              ELSE Crash /\ UNCHANGED trace
    /\ UNCHANGED <<agent_status, device, last_condition_event, stop_health, ret, msg,
                   matched, lastPub, discoverBy, watch, webVars>>
    /\ UNCHANGED monLocal

\* line 155
StartSetStatus ==
    /\ pc = "start_set_status"
    /\ agent_status' = "RECORDING"
    /\ pc' = "start_publish"
    /\ UNCHANGED <<device, last_condition_event, stop_health, ret, msg, matched,
                   lastPub, trace, exit_code, discoverBy, watch, webVars>>
    /\ UNCHANGED monLocal

\* line 156
StartPublish ==
    /\ pc = "start_publish"
    /\ Publish(FALSE)
    /\ Return
    /\ UNCHANGED <<agent_status, device, last_condition_event, stop_health, ret,
                   trace, exit_code, discoverBy, watch, webVars>>
    /\ UNCHANGED monLocal

\* ---- send_condition_event, lines 172-189

\* self.device.send_event(label + suffix) at position `at`, going on to `next`
\* and setting last_condition_event to `last`; AttributeError if no device is
\* bound, and an exception of the call leaves run()
SendEvent(label, suffix, last, next) ==
    /\ IF device = None
       THEN /\ Crash
            /\ UNCHANGED <<trace, last_condition_event, msg, matched>>
       ELSE \E res \in RpcResults :
              /\ Log(Entry(suffix, label, "ctl", res))
              /\ IF res = "ok"
                 THEN /\ last_condition_event' = last
                      /\ IF next = "recv"
                         THEN Return
                         ELSE pc' = next /\ UNCHANGED <<msg, matched>>
                      /\ UNCHANGED exit_code
                 ELSE /\ Crash
                      /\ UNCHANGED <<last_condition_event, msg, matched>>
    /\ UNCHANGED <<agent_status, device, stop_health, ret, lastPub, discoverBy,
                   watch, webVars>>
    /\ UNCHANGED monLocal

\* lines 175-178 and 184-186: label.begin, then last_condition_event = label
SendConditionBegin ==
    /\ \/ /\ pc = "send_condition_event"
          /\ send_condition_branch(last_condition_event, msg.label) = "begin"
       \/ pc = "send_condition_begin"
    /\ SendEvent(msg.label, "begin", msg.label, "recv")

\* lines 180-183: the label differs from the open one: its .end goes first
SendConditionEnd ==
    /\ pc = "send_condition_event"
    /\ send_condition_branch(last_condition_event, msg.label) = "switch"
    /\ SendEvent(last_condition_event, "end", last_condition_event,
                 "send_condition_begin")

\* lines 188-189: the same label again: return
SendConditionNoop ==
    /\ pc = "send_condition_event"
    /\ send_condition_branch(last_condition_event, msg.label) = "noop"
    /\ Return
    /\ UNCHANGED <<agent_status, device, last_condition_event, stop_health, ret,
                   lastPub, trace, exit_code,
                   discoverBy, watch, webVars>>
    /\ UNCHANGED monLocal

\* ---- stop_recording, lines 158-170

\* lines 160-163: the open label's .end, then last_condition_event = None
StopSendEnd ==
    /\ pc = "stop_recording"
    /\ StopSendsEnd(last_condition_event)
    /\ SendEvent(last_condition_event, "end", NoLabel, "stop_and_save")

\* line 166: self.device.recording_stop_and_save()
StopAndSave ==
    /\ \/ pc = "stop_and_save"
       \/ pc = "stop_recording" /\ ~StopSendsEnd(last_condition_event)
    /\ IF device = None
       THEN Crash /\ UNCHANGED trace
       ELSE \E res \in RpcResults :
              /\ Log(Entry("save", NoLabel, "ctl", res))
              /\ IF res = "ok"
                 THEN pc' = "stop_set_status" /\ UNCHANGED exit_code
                 ELSE Crash
    /\ UNCHANGED <<agent_status, device, last_condition_event, stop_health, ret, msg,
                   matched, lastPub, discoverBy, watch, webVars>>
    /\ UNCHANGED monLocal

\* line 169
StopSetStatus ==
    /\ pc = "stop_set_status"
    /\ agent_status' = "CONNECTED"
    /\ pc' = "stop_publish"
    /\ UNCHANGED <<device, last_condition_event, stop_health, ret, msg, matched,
                   lastPub, trace, exit_code, discoverBy, watch, webVars>>
    /\ UNCHANGED monLocal

\* line 170; on the disconnect command run() goes on at line 422
StopPublish ==
    /\ pc = "stop_publish"
    /\ Publish(FALSE)
    /\ IF msg.command = "pupil_neon_disconnect"
       THEN pc' = "stop_health_loop" /\ UNCHANGED <<msg, matched>>
       ELSE Return
    /\ UNCHANGED <<agent_status, device, last_condition_event, stop_health, ret,
                   trace, exit_code, discoverBy, watch, webVars>>
    /\ UNCHANGED monLocal

\* ---- the end of run() and main's finally, lines 426-462

\* lines 429 and 446: stop_health_loop(), twice
RunFinally ==
    /\ pc = "run_finally"
    /\ stop_health' = TRUE
    /\ pc' = "main_check_status"
    /\ msg' = NoMsg
    /\ matched' = "none"
    /\ Log(ShutdownEntry(agent_status))
    /\ UNCHANGED <<agent_status, device, last_condition_event, ret,
                   lastPub, exit_code, discoverBy, watch, webVars>>
    /\ UNCHANGED monLocal

\* line 447
MainCheckStatus ==
    /\ pc = "main_check_status"
    /\ pc' = IF agent_status \in {"CONNECTED", "RECORDING"}
             THEN "main_check_recording"
             ELSE "main_set_shutdown"
    /\ UNCHANGED <<agent_status, device, last_condition_event, stop_health, ret, msg,
                   matched, lastPub, trace, exit_code,
                   discoverBy, watch, webVars>>
    /\ UNCHANGED monLocal

\* line 448, then line 450 calls disconnect_device()
MainCheckRecording ==
    /\ pc = "main_check_recording"
    /\ IF agent_status = "RECORDING"
       THEN pc' = "main_stop_and_save" /\ UNCHANGED ret
       ELSE pc' = "disconnect_close" /\ ret' = "main"
    /\ UNCHANGED <<agent_status, device, last_condition_event, stop_health, msg,
                   matched, lastPub, trace, exit_code,
                   discoverBy, watch, webVars>>
    /\ UNCHANGED monLocal

\* line 449: agent.device.recording_stop_and_save(); an exception (of the call,
\* or AttributeError with no device bound) goes to line 459 and the process ends
MainStopAndSave ==
    /\ pc = "main_stop_and_save"
    /\ IF device = None
       THEN pc' = "exited" /\ UNCHANGED <<trace, ret>>
       ELSE \E res \in RpcResults :
              /\ Log(Entry("save", NoLabel, "ctl", res))
              /\ IF res = "ok"
                 THEN pc' = "disconnect_close" /\ ret' = "main"
                 ELSE pc' = "exited" /\ UNCHANGED ret
    /\ UNCHANGED <<agent_status, device, last_condition_event, stop_health, msg,
                   matched, lastPub, exit_code, discoverBy, watch, webVars>>
    /\ UNCHANGED monLocal

\* line 453
MainSetShutdown ==
    /\ pc = "main_set_shutdown"
    /\ agent_status' = "SHUTDOWN"
    /\ pc' = "main_publish"
    /\ UNCHANGED <<device, last_condition_event, stop_health, ret, msg, matched,
                   lastPub, trace, exit_code, discoverBy, watch, webVars>>
    /\ UNCHANGED monLocal

\* line 454: the final status
MainPublish ==
    /\ pc = "main_publish"
    /\ Publish(TRUE)
    /\ Log(Entry("final", NoLabel, "ctl", "ok"))
    /\ pc' = "main_bus_disconnect"
    /\ UNCHANGED <<agent_status, device, last_condition_event, stop_health, ret, msg,
                   matched, exit_code, discoverBy, watch, webVars>>
    /\ UNCHANGED monLocal

\* lines 456-462: agent.agent.disconnect(), then sys.exit
MainBusDisconnect ==
    /\ pc = "main_bus_disconnect"
    /\ Log(Entry("busdisc", NoLabel, "ctl", "ok"))
    /\ pc' = "exited"
    /\ UNCHANGED <<agent_status, device, last_condition_event, stop_health, ret, msg,
                   matched, lastPub, exit_code, discoverBy, watch, webVars>>
    /\ UNCHANGED monLocal

\* ------------------------------------------- _health_loop, lines 210-288
\* The thread is a daemon: it runs as long as the process does.

Running == pc # "exited"

\* lines 214-217: leave the loop if the stop event is set; without a device
\* sleep 1 s; else go on to the health check
HealthLoopTop ==
    /\ Running
    /\ hpc = "loop"
    /\ hpc' = IF stop_health THEN "none"
              ELSE IF device = None THEN "sleep_no_device"
              ELSE "check_connection_health"
    /\ UNCHANGED <<estAbandoned, probe>>
    /\ UNCHANGED ctlShared
    /\ UNCHANGED lastPub
    /\ LogCycle
    /\ UNCHANGED ctlLocal

\* line 216: time.sleep(1.0); continue
HealthSleepNoDevice ==
    /\ Running
    /\ hpc = "sleep_no_device"
    /\ hpc' = "loop"
    /\ UNCHANGED <<estAbandoned, probe>>
    /\ UNCHANGED ctlShared
    /\ UNCHANGED <<lastPub, trace>>
    /\ UNCHANGED ctlLocal

\* check_connection_health, lines 132-137 and 145: no device: return False;
\* else world_sensor() reports connected, reports not connected, or raises
\* (an AttributeError of self.device read as None is caught the same way)
HealthProbe ==
    /\ Running
    /\ hpc = "check_connection_health"
    /\ IF device = None
       THEN hpc' = "backoff" /\ UNCHANGED probe
       ELSE \E p \in {"connected", "not_connected", "raise"} :
              /\ probe' = IF p = "connected" THEN "none" ELSE p
              /\ hpc' = IF p = "connected" THEN "estimate_start"
                        ELSE "health_read_status"
    /\ UNCHANGED estAbandoned
    /\ UNCHANGED ctlShared
    /\ UNCHANGED <<lastPub, trace>>
    /\ UNCHANGED ctlLocal

\* what check_connection_health returns when the probe did not report connected
\* and the status read is neither CONNECTED nor RECORDING: line 144 (True) after
\* "not connected", line 149 (False) after an exception
HealthReturnsTrue(p) == p = "not_connected"

\* a check_connection_health that forces IDLE after "not connected" only
HealthReadStatusAfterRaiseSilent ==
    /\ Running
    /\ hpc = "health_read_status"
    /\ hpc' = IF agent_status \in {"CONNECTED", "RECORDING"} /\ probe # "raise"
              THEN "health_set_idle"
              ELSE IF HealthReturnsTrue(probe) THEN "estimate_start"
              ELSE "backoff"
    /\ probe' = IF hpc' = "health_set_idle" THEN probe ELSE "none"
    /\ UNCHANGED estAbandoned
    /\ UNCHANGED ctlShared
    /\ UNCHANGED <<lastPub, trace>>
    /\ UNCHANGED ctlLocal

\* a check_connection_health that forces IDLE and publishes whatever the status
HealthReadStatusAnyStatus ==
    /\ Running
    /\ hpc = "health_read_status"
    /\ hpc' = "health_set_idle"
    /\ probe' = probe
    /\ UNCHANGED estAbandoned
    /\ UNCHANGED ctlShared
    /\ UNCHANGED <<lastPub, trace>>
    /\ UNCHANGED ctlLocal

\* lines 139 and 146: read the status
HealthReadStatus ==
    /\ Running
    /\ hpc = "health_read_status"
    /\ hpc' = IF agent_status \in {"CONNECTED", "RECORDING"} THEN "health_set_idle"
              ELSE IF HealthReturnsTrue(probe) THEN "estimate_start"
              ELSE "backoff"
    /\ probe' = IF hpc' = "health_set_idle" THEN probe ELSE "none"
    /\ UNCHANGED estAbandoned
    /\ UNCHANGED ctlShared
    /\ UNCHANGED <<lastPub, trace>>
    /\ UNCHANGED ctlLocal

\* lines 140 and 147
HealthSetIdle ==
    /\ Running
    /\ hpc = "health_set_idle"
    /\ agent_status' = "IDLE"
    /\ hpc' = "health_publish"
    /\ UNCHANGED <<estAbandoned, probe>>
    /\ UNCHANGED <<device, last_condition_event, stop_health>>
    /\ UNCHANGED <<lastPub, trace>>
    /\ UNCHANGED ctlLocal

\* lines 141 and 148: publish "Connection lost", return False
HealthPublish ==
    /\ Running
    /\ hpc = "health_publish"
    /\ Publish(TRUE)
    /\ hpc' = "backoff"
    /\ UNCHANGED estAbandoned
    /\ probe' = "none"
    /\ UNCHANGED ctlShared
    /\ LogLost
    /\ UNCHANGED ctlLocal

\* line 221: time.sleep(5.0); continue
HealthBackoff ==
    /\ Running
    /\ hpc = "backoff"
    /\ hpc' = "loop"
    /\ UNCHANGED <<estAbandoned, probe>>
    /\ UNCHANGED ctlShared
    /\ UNCHANGED <<lastPub, trace>>
    /\ UNCHANGED ctlLocal

\* lines 232-240: the estimate thread calls self.device.estimate_time_offset();
\* with no device bound the AttributeError lands in error_container
EstimateStart ==
    /\ Running
    /\ hpc = "estimate_start"
    /\ hpc' = IF device = None THEN "discard_close" ELSE "estimate_wait"
    /\ UNCHANGED <<estAbandoned, probe>>
    /\ UNCHANGED ctlShared
    /\ UNCHANGED <<lastPub, trace>>
    /\ UNCHANGED ctlLocal

\* lines 241-258: the join ends with the call's result, with its error (or a
\* None result), or after 10 s with the call still running
EstimateJoin ==
    /\ Running
    /\ hpc = "estimate_wait"
    /\ \E out \in {"result", "error", "timeout"} :
         /\ hpc' = IF out = "result" THEN "publish_offset_stats" ELSE "discard_close"
         /\ estAbandoned' = IF out = "timeout" THEN TRUE ELSE estAbandoned
    /\ UNCHANGED probe
    /\ UNCHANGED ctlShared
    /\ UNCHANGED <<lastPub, trace>>
    /\ UNCHANGED ctlLocal

\* an abandoned call whose late result is published like one that came in time
AbandonedEstimateReturnsPublishes ==
    /\ Running
    /\ estAbandoned
    /\ estAbandoned' = FALSE
    /\ Publish(FALSE)
    /\ UNCHANGED <<hpc, probe>>
    /\ UNCHANGED ctlShared
    /\ UNCHANGED trace
    /\ UNCHANGED ctlLocal

\* the calls the monitor gave up on have returned at last: their results went
\* to lists nobody reads
AbandonedEstimateReturns ==
    /\ Running
    /\ estAbandoned
    /\ estAbandoned' = FALSE
    /\ UNCHANGED <<hpc, probe>>
    /\ UNCHANGED ctlShared
    /\ UNCHANGED <<lastPub, trace>>
    /\ UNCHANGED ctlLocal

\* a _publish_offset_stats whose exception reaches the except clause of the loop
PublishOffsetStatsRaises ==
    /\ Running
    /\ hpc = "publish_offset_stats"
    /\ Publish(FALSE)
    /\ hpc' = IF watch = "bus" /\ lastPub'.raised THEN "discard_close" ELSE "cycle_sleep"
    /\ UNCHANGED <<estAbandoned, probe>>
    /\ UNCHANGED ctlShared
    /\ UNCHANGED trace
    /\ UNCHANGED ctlLocal

\* _publish_offset_stats, lines 193-208 (line 268)
PublishOffsetStats ==
    /\ Running
    /\ hpc = "publish_offset_stats"
    /\ Publish(FALSE)
    /\ hpc' = "cycle_sleep"
    /\ UNCHANGED <<estAbandoned, probe>>
    /\ UNCHANGED ctlShared
    /\ UNCHANGED trace
    /\ UNCHANGED ctlLocal

\* lines 273-277: close the device if one is bound; errors are ignored
DiscardClose ==
    /\ Running
    /\ hpc = "discard_close"
    /\ IF device # None
       THEN Log(Entry("close", NoLabel, "mon", "ok"))
       ELSE UNCHANGED trace
    /\ hpc' = "discard_clear"
    /\ UNCHANGED <<estAbandoned, probe>>
    /\ UNCHANGED ctlShared
    /\ UNCHANGED lastPub
    /\ UNCHANGED ctlLocal

\* line 279
DiscardClear ==
    /\ Running
    /\ hpc = "discard_clear"
    /\ device' = None
    /\ hpc' = "discard_read_status"
    /\ UNCHANGED <<estAbandoned, probe>>
    /\ UNCHANGED <<agent_status, last_condition_event, stop_health>>
    /\ UNCHANGED <<lastPub, trace>>
    /\ UNCHANGED ctlLocal

\* line 280
DiscardReadStatus ==
    /\ Running
    /\ hpc = "discard_read_status"
    /\ hpc' = IF agent_status \in {"CONNECTED", "RECORDING"} THEN "discard_set_idle"
              ELSE "cycle_sleep"
    /\ UNCHANGED <<estAbandoned, probe>>
    /\ UNCHANGED ctlShared
    /\ UNCHANGED <<lastPub, trace>>
    /\ UNCHANGED ctlLocal

\* line 281
DiscardSetIdle ==
    /\ Running
    /\ hpc = "discard_set_idle"
    /\ agent_status' = "IDLE"
    /\ hpc' = "discard_publish"
    /\ UNCHANGED <<estAbandoned, probe>>
    /\ UNCHANGED <<device, last_condition_event, stop_health>>
    /\ UNCHANGED <<lastPub, trace>>
    /\ UNCHANGED ctlLocal

\* line 282
DiscardPublish ==
    /\ Running
    /\ hpc = "discard_publish"
    /\ Publish(TRUE)
    /\ hpc' = "cycle_sleep"
    /\ UNCHANGED <<estAbandoned, probe>>
    /\ UNCHANGED ctlShared
    /\ LogLost
    /\ UNCHANGED ctlLocal

\* lines 285-288: up to 50 sleeps of 0.1 s, cut short by the stop event
CycleSleep ==
    /\ Running
    /\ hpc = "cycle_sleep"
    /\ hpc' = "loop"
    /\ UNCHANGED <<estAbandoned, probe>>
    /\ UNCHANGED ctlShared
    /\ UNCHANGED <<lastPub, trace>>
    /\ UNCHANGED ctlLocal

\* ------------------------------------------------------- the specification

Controller ==
    \/ AgentBusInit \/ AgentInitFailed \/ AgentConnect
    \/ AgentInit \/ AgentSetIdle
    \/ Heartbeat \/ Receive \/ ReceiveIgnored \/ Interrupt
    \/ ConnectDiscover \/ ConnectGetTemplate \/ ConnectFailPublish
    \/ ConnectSetStatus \/ ConnectPublish \/ StartHealthLoop
    \/ StopHealthLoop
    \/ DisconnectClose \/ DisconnectClear \/ DisconnectSetStatus \/ DisconnectPublish
    \/ FillTemplate \/ PostTemplate \/ StartRecording \/ StartSetStatus \/ StartPublish
    \/ SendConditionBegin \/ SendConditionEnd \/ SendConditionNoop
    \/ StopSendEnd \/ StopAndSave \/ StopSetStatus \/ StopPublish
    \/ RunFinally \/ MainCheckStatus \/ MainCheckRecording \/ MainStopAndSave
    \/ MainSetShutdown \/ MainPublish \/ MainBusDisconnect

Monitor ==
    \/ HealthLoopTop \/ HealthSleepNoDevice \/ HealthProbe \/ HealthReadStatus
    \/ HealthSetIdle \/ HealthPublish \/ HealthBackoff
    \/ EstimateStart \/ EstimateJoin \/ AbandonedEstimateReturns \/ PublishOffsetStats
    \/ DiscardClose \/ DiscardClear \/ DiscardReadStatus \/ DiscardSetIdle
    \/ DiscardPublish \/ CycleSleep

Next == Controller \/ Monitor

InitCalls == Init /\ watch = "calls"
InitRelease == Init /\ watch = "release"
InitBus == Init /\ watch = "bus"

\* the agent, with the commands, events and saves of each recording recorded
Spec == InitCalls /\ [][Next]_vars

\* the agent, with the saves, the closes and the shutdown recorded
SpecRelease == InitRelease /\ [][Next]_vars

\* the agent, with the publishes on topic pupil_neon recorded
SpecBus == InitBus /\ [][Next]_vars

\* ============================================================ the web server

\* the state of the agent, which the web server does not touch
agentVars == <<agent_status, device, last_condition_event, stop_health, pc, ret, msg,
               matched, hpc, estAbandoned, lastPub, trace, exit_code, probe,
               discoverBy, watch>>

\* acquisitions[id] = record
WithRecord(acq_dict, id, record) ==
    [k \in DOMAIN acq_dict \cup {id} |-> IF k = id THEN record ELSE acq_dict[k]]

\* a sequence without its i-th element
Without(seq, i) == SubSeq(seq, 1, i - 1) \o SubSeq(seq, i + 1, Len(seq))

\* a /start that takes the request although an acquisition is running
StartRefusedNever(current) == FALSE

\* start_acquisition, lines 425-430: the request is refused
StartRefused(current) == current # NoId

\* POST /start, lines 420-507 (no await: one step of the event loop). The test
\* configuration may carry a condition id; each publish is sent or raises.
start_acquisition ==
    /\ Len(ws_command) + 2 <= MaxPublished
    /\ \E cond \in {"", " A"}, res \in RpcResults, cres \in RpcResults :
         IF StartRefused(current_acquisition_id)
         THEN /\ webLast' = Response("start", "error_running", current_acquisition_id)
              /\ UNCHANGED <<acquisitions, current_acquisition_id, next_id, ws_command,
                             assigned>>
         ELSE LET id == FormatId(next_id) IN
              /\ next_id < MaxId
              /\ next_id' = next_id + 1
              /\ assigned' = assigned \cup {id}
              /\ IF ~mads_agent
                 THEN /\ webLast' = Response("start", "error_no_agent", id)
                      /\ UNCHANGED <<acquisitions, current_acquisition_id, ws_command>>
                 ELSE IF res = "raise"
                 THEN /\ webLast' = Response("start", "error_publish", id)
                      /\ UNCHANGED <<acquisitions, current_acquisition_id, ws_command>>
                 ELSE /\ acquisitions' =
                             WithRecord(acquisitions, id, Record("running", next_id, <<>>))
                      /\ current_acquisition_id' = id
                      /\ ws_command' =
                             Append(ws_command, Payload_ws("start", next_id, "")) \o
                             ( IF strip(cond) # "" /\ cres = "ok"
                               THEN <<Payload_ws("condition", 0, strip(cond))>>
                               ELSE <<>> )
                      /\ webLast' = Response("start", "started", id)
    /\ UNCHANGED <<mads_agent, stopping>>
    /\ UNCHANGED agentVars

\* POST /stop, lines 510-522: refused without a running acquisition; else the
\* stop command is handed to the executor with the current id and the request
\* waits for it
stop_acquisition ==
    /\ IF current_acquisition_id = NoId
       THEN /\ webLast' = Response("stop", "error_none", NoId)
            /\ UNCHANGED stopping
       ELSE /\ Len(stopping) < MaxStops
            /\ stopping' = Append(stopping, [id |-> current_acquisition_id,
                                             sent |-> "await"])
            /\ webLast' = Response("stop", "await", current_acquisition_id)
    /\ UNCHANGED <<acquisitions, current_acquisition_id, next_id, mads_agent,
                   ws_command, assigned>>
    /\ UNCHANGED agentVars

\* send_mads_command, lines 245-271, in the executor: no agent, or the publish
\* is sent or raises
send_mads_command ==
    /\ Len(ws_command) < MaxPublished
    /\ \E i \in 1..Len(stopping), res \in RpcResults :
         /\ stopping[i].sent = "await"
         /\ IF mads_agent /\ res = "ok"
            THEN /\ ws_command' =
                        Append(ws_command, Payload_ws("stop", stopping[i].id.num, ""))
                 /\ stopping' = [stopping EXCEPT ![i].sent = "ok"]
            ELSE /\ UNCHANGED ws_command
                 /\ stopping' = [stopping EXCEPT ![i].sent = "failed"]
    /\ UNCHANGED <<acquisitions, current_acquisition_id, next_id, mads_agent, assigned,
                   webLast>>
    /\ UNCHANGED agentVars

\* POST /stop, lines 523-543: after the await; a failed publish is reported,
\* else the record of the acquisition current now is completed and no
\* acquisition is current
stop_acquisition_resume ==
    /\ \E i \in 1..Len(stopping) :
         /\ stopping[i].sent # "await"
         /\ stopping' = Without(stopping, i)
         /\ IF stopping[i].sent = "failed"
            THEN /\ webLast' = Response("stop", "error_publish", stopping[i].id)
                 /\ UNCHANGED <<acquisitions, current_acquisition_id>>
            ELSE LET acquisition_id == current_acquisition_id IN
                 /\ acquisitions' =
                        IF acquisition_id \in DOMAIN acquisitions
                        THEN [acquisitions EXCEPT ![acquisition_id].status = "completed"]
                        ELSE acquisitions
                 /\ current_acquisition_id' = NoId
                 /\ webLast' = Response("stop", "stopped", acquisition_id)
    /\ UNCHANGED <<next_id, mads_agent, ws_command, assigned>>
    /\ UNCHANGED agentVars

\* the condition id a record's last entry stands for (lines 666-670)
last_id(conditions) ==
    IF conditions = <<>> THEN ""
    ELSE LET last_entry == conditions[Len(conditions)] IN
         IF last_entry.condition_id # "" THEN strip(last_entry.condition_id)
         ELSE strip(last_entry.condition)

\* a test that takes every condition for a new one
is_new_condition_always(last, condition_id) == TRUE

\* line 672
is_new_condition(last, condition_id) == last # condition_id

\* the acquisitions started last (lines 654-656)
MostRecent ==
    {k \in DOMAIN acquisitions :
        \A j \in DOMAIN acquisitions :
            acquisitions[j].start_time <= acquisitions[k].start_time}

\* POST /save_condition, lines 634-703: the target is the current acquisition
\* or else the one started last; a condition whose id is the one of the
\* target's last entry is neither appended nor published
save_condition ==
    /\ Len(ws_command) < MaxPublished
    /\ \E condition \in {"", "A", "B"}, cid \in {"", " A"},
          res \in RpcResults :
         LET condition_label == strip(condition)
             condition_id == IF strip(cid) # "" THEN strip(cid) ELSE condition_label
         IN
         IF condition_label = "" \/ (current_acquisition_id = NoId
                                       /\ DOMAIN acquisitions = {})
         THEN /\ webLast' = Response("save_condition", "error", NoId)
              /\ UNCHANGED <<acquisitions, ws_command>>
         ELSE \E target \in IF current_acquisition_id # NoId
                             THEN {current_acquisition_id} ELSE MostRecent :
              LET existing == acquisitions[target].conditions IN
              IF is_new_condition(last_id(existing), condition_id)
              THEN /\ Len(existing) < MaxEntries
                   /\ acquisitions' =
                          [acquisitions EXCEPT ![target].conditions =
                              Append(existing,
                                     ConditionEntry(condition_label, condition_id))]
                   /\ IF mads_agent /\ res = "ok"
                      THEN /\ ws_command' =
                                 Append(ws_command,
                                        Payload_ws("condition", 0, condition_id))
                           /\ webLast' = ConditionResponse("saved", target, condition_id)
                      ELSE /\ UNCHANGED ws_command
                           /\ webLast' =
                                 ConditionResponse(
                                     IF mads_agent THEN "error_publish" ELSE "saved",
                                     target, condition_id)
              ELSE /\ webLast' = ConditionResponse("unchanged", target, condition_id)
                   /\ UNCHANGED <<acquisitions, ws_command>>
    /\ UNCHANGED <<current_acquisition_id, next_id, mads_agent, stopping, assigned>>
    /\ UNCHANGED agentVars

NextWeb ==
    \/ start_acquisition
    \/ stop_acquisition
    \/ send_mads_command
    \/ stop_acquisition_resume
    \/ save_condition

InitWeb == Init /\ watch = "web"

\* the web server, with the payloads it publishes on ws_command recorded
SpecWeb == InitWeb /\ [][NextWeb]_vars

\* ==================================================================== claims

\* ---- reading the trace

\* positions of the trace
Pos(t) == 1..Len(t)

\* the entry at position i is the call `op`
IsOp(t, i, op) == t[i].op = op

\* the entry at position i is an event (op "begin" or "end") that was sent
SentEvent(t, i, op) == t[i].op = op /\ t[i].res = "ok"

\* ---- release of the handle (SpecRelease)

\* the command being handled is a disconnect that was dispatched in RECORDING
DisconnectWhileRecording ==
    /\ msg.command = "pupil_neon_disconnect"
    /\ matched = "RECORDING"

\* every close on the handle comes after a stop-and-save on it
SaveBeforeClose(t) ==
    \A i \in Pos(t) : IsOp(t, i, "close") => \E j \in 1..(i - 1) : IsOp(t, j, "save")

\* C1: for every interleaving of the command loop and the health thread, while
\* a disconnect command dispatched in Recording is handled, no close has been
\* made on the handle of the recording without a recording_stop_and_save before
\* it, and the handler ends with the status Idle.
C1_DisconnectSavesBeforeRelease ==
    DisconnectWhileRecording =>
        /\ SaveBeforeClose(trace)
        /\ (pc = "disconnect_publish" => agent_status = "IDLE")

\* the position where a shutdown began with the status RECORDING
ShutdownWhileRecording(t, s) == IsOp(t, s, "shutdown") /\ t[s].status = "RECORDING"

\* C2: when the process has shut down from Recording, the shutdown made, in this
\* order, a stop-and-save attempt, a close of the handle, the final status
\* publish and the bus disconnect; no final status comes before the
\* stop-and-save attempt or after the bus disconnect.
C2_ShutdownOrder ==
    (pc = "exited") =>
        \A s \in Pos(trace) :
            ShutdownWhileRecording(trace, s) =>
                \E i, j, k, l \in (s + 1)..Len(trace) :
                    /\ i < j /\ j < k /\ k < l
                    /\ IsOp(trace, i, "save")
                    /\ IsOp(trace, j, "close")
                    /\ IsOp(trace, k, "final")
                    /\ IsOp(trace, l, "busdisc")
                    /\ \A f \in (s + 1)..Len(trace) :
                           IsOp(trace, f, "final") => (i < f /\ f < l)

\* C3: when the process has ended, every recording_stop_and_save that raised (in
\* the disconnect handler or in the shutdown) was followed by a close of the
\* handle, and the device reference is cleared.
C3_FailedSaveStillReleases ==
    (pc = "exited") =>
        \A i \in Pos(trace) :
            (IsOp(trace, i, "save") /\ trace[i].res = "raise") =>
                /\ \E j \in (i + 1)..Len(trace) : IsOp(trace, j, "close")
                /\ device = None

\* ---- the start command (Spec)

\* the main thread is at the recording_start call or has made it
AtRecordingStart == pc \in {"start_recording", "start_set_status", "start_publish"}

EstimateIssued == hpc = "estimate_start" /\ hpc' = "estimate_wait"

\* C5: the health thread makes no estimate_time_offset call while the status is
\* RECORDING, whatever the timing of its cycles and of the commands.
C5_NoEstimateWhileRecording ==
    [][EstimateIssued => agent_status # "RECORDING"]_vars

\* C6: when an estimate_time_offset call has timed out and is still running, a
\* cycle of the health thread that finds no device bound has attempted
\* discovery before it sleeps.
C6_DiscoveryAfterTimeout ==
    (hpc = "sleep_no_device" /\ estAbandoned) => discoverBy = "mon"

\* ---- condition events (Spec)

\* the .end events that match the .begin at position p before position i: same
\* label, sent, and no other .begin in between
MatchingEnds(t, p, i) ==
    {q \in (p + 1)..(i - 1) :
        /\ SentEvent(t, q, "end")
        /\ t[q].label = t[p].label
        /\ \A r \in (p + 1)..(q - 1) : ~IsOp(t, r, "begin")}

\* C7: however the recording is ended (stop command, disconnect command,
\* shutdown), every .begin event sent in it has exactly one matching .end event
\* sent before the recording_stop_and_save call is made.
C7_SpansClosedBeforeSave ==
    \A i \in Pos(trace) :
        IsOp(trace, i, "save") =>
            \A p \in 1..(i - 1) :
                SentEvent(trace, p, "begin") =>
                    Cardinality(MatchingEnds(trace, p, i)) = 1

\* the commands of the trace, in order
IsCommand(e) == e.by = "bus"
CommandsOf(t) == SelectSeq(t, IsCommand)

\* the trace of a recording that started with no label open in the sequencer
StartedWithNoLabel(t) ==
    /\ Len(t) > 0
    /\ t[1] = Entry("start", NoLabel, "ctl", "ok")

Condition(label) == Entry("condition", label, "bus", "ok")
Sent(label, suffix) == Entry(suffix, label, "ctl", "ok")

\* C8: in a recording that started with no condition open, when the commands
\* condition(A), condition(A), condition(B), stop have been handled and
\* recording_stop_and_save has returned, the calls made on the device were
\* exactly A.begin (for the first command), A.end and B.begin (for the third),
\* B.end and then recording_stop_and_save (for the stop).
C8_ConditionSequence ==
    ( /\ pc = "stop_set_status"
      /\ StartedWithNoLabel(trace)
      /\ CommandsOf(trace) = <<Condition("A"), Condition("A"), Condition("B"),
                               Entry("stop", NoLabel, "bus", "ok")>> )
    => trace = << Entry("start", NoLabel, "ctl", "ok"),
                  Condition("A"), Sent("A", "begin"),
                  Condition("A"),
                  Condition("B"), Sent("A", "end"), Sent("B", "begin"),
                  Entry("stop", NoLabel, "bus", "ok"), Sent("B", "end"),
                  Entry("save", NoLabel, "ctl", "ok") >>

\* the four commands were handled and the stop-and-save call has returned
C8_Witness ==
    /\ pc = "stop_set_status"
    /\ StartedWithNoLabel(trace)
    /\ CommandsOf(trace) = <<Condition("A"), Condition("A"), Condition("B"),
                             Entry("stop", NoLabel, "bus", "ok")>>
    /\ trace[Len(trace)] = Entry("save", NoLabel, "ctl", "ok")

\* the label the sequencer holds before position i of the trace: that of the last
\* .begin sent, none after an .end, else the one the recording started with
LabelBefore(t, i) ==
    LET marks == {j \in 1..(i - 1) : t[j].op \in {"start", "begin", "end"} /\ t[j].res = "ok"}
        j == CHOOSE m \in marks : \A n \in marks : n <= m
    IN  IF marks = {} \/ t[j].op = "end" THEN NoLabel ELSE t[j].label

\* position i is a condition command that repeats the label the sequencer holds
RepeatsLabel(t, i) ==
    /\ IsOp(t, i, "condition")
    /\ LabelBefore(t, i) # NoLabel
    /\ t[i].label = LabelBefore(t, i)

\* C9: a condition command whose label is the one the sequencer holds sends no
\* event and leaves last_condition_event as it is; so when condition(l),
\* condition(l) have been handled in a recording that started with no label
\* open, exactly one event was sent: l.begin, for the first command.
C9_RepeatedLabelIdempotent ==
    /\ \A i \in Pos(trace) :
          RepeatsLabel(trace, i) =>
              IF i = Len(trace)
              THEN last_condition_event = trace[i].label
              ELSE trace[i + 1].op \notin {"begin", "end"}
    /\ \A l \in Labels :
          ( /\ pc = "recv"
            /\ StartedWithNoLabel(trace)
            /\ CommandsOf(trace) = <<Condition(l), Condition(l)>> )
          => ( /\ trace = << Entry("start", NoLabel, "ctl", "ok"),
                             Condition(l), Sent(l, "begin"), Condition(l) >>
               /\ last_condition_event = l )

\* condition(A), condition(A) were handled in a recording that started with no
\* label open, and the loop waits for the next command
C9_Witness ==
    /\ pc = "recv"
    /\ StartedWithNoLabel(trace)
    /\ CommandsOf(trace) = <<Condition("A"), Condition("A")>>
    /\ RepeatsLabel(trace, Len(trace))

\* .begin events sent minus .end events sent in the first k entries
OpenSpans(t, k) ==
    Cardinality({p \in 1..k : SentEvent(t, p, "begin")})
        - Cardinality({p \in 1..k : SentEvent(t, p, "end")})

\* C10: at every point of a recording the .begin events sent on the device
\* outnumber the .end events sent by 0 or 1, and a .begin is sent only when no
\* span is open.
C10_AtMostOneOpenSpan ==
    \A k \in Pos(trace) :
        /\ OpenSpans(trace, k) \in {0, 1}
        /\ SentEvent(trace, k, "begin") => OpenSpans(trace, k - 1) = 0

\* ---- the sequencer's label and the status

\* C11: the sequencer holds no label whenever the status is not RECORDING, and
\* every recording starts with no label held, so that its first condition
\* command sends label.begin and no .end of a label of an earlier recording.
C11_LabelAbsentOutsideRecording ==
    /\ (agent_status # "RECORDING") => last_condition_event = NoLabel
    /\ (Len(trace) > 0 /\ IsOp(trace, 1, "start") /\ trace[1].by = "ctl")
           => StartedWithNoLabel(trace)

\* ---- the transition table

\* the (state, command) pairs the table of the session controller maps, with the
\* tokens run() compares against
MappedPairs ==
    {<<"IDLE", "pupil_neon_connect">>,
     <<"CONNECTED", "pupil_neon_disconnect">>, <<"CONNECTED", "start">>,
     <<"RECORDING", "condition">>, <<"RECORDING", "stop">>,
     <<"RECORDING", "pupil_neon_disconnect">>}

\* the main thread is inside the handler of a command
Handling == msg # NoMsg

\* C12: a command that the table does not map for the status it is dispatched
\* in gets no handler: the main thread leaves the top of its loop only for a
\* mapped pair, so an unmapped command makes no call on the device and changes
\* neither the status, nor the device reference, nor the sequencer's label.
C12_UnmappedIgnored ==
    /\ Handling => <<matched, msg.command>> \in MappedPairs
    /\ (~Handling /\ Running) =>
          pc \in {"agent_init", "agent_init_failed", "agent_connect",
                  "init_publish", "init_set_idle", "recv", "run_finally",
                  "main_check_status", "main_check_recording", "main_stop_and_save",
                  "disconnect_close", "disconnect_clear", "disconnect_set_status",
                  "disconnect_publish", "main_set_shutdown", "main_publish",
                  "main_bus_disconnect"}

\* the loop waits for a command while Recording, where start is not mapped
C12_Witness ==
    /\ pc = "recv"
    /\ agent_status = "RECORDING"
    /\ Dispatch(agent_status, "start") = "ignore"
    /\ <<agent_status, "start">> \notin MappedPairs

\* the changes of the status the table allows after the start of the agent
TableTransitions ==
    {<<"STARTUP", "IDLE">>, <<"IDLE", "CONNECTED">>, <<"CONNECTED", "IDLE">>,
     <<"CONNECTED", "RECORDING">>, <<"RECORDING", "CONNECTED">>,
     <<"RECORDING", "IDLE">>}
        \cup {<<st, "SHUTDOWN">> : st \in AgentStatus \ {"SHUTDOWN"}}

\* C13: every change of the status is a transition of the table, and the step
\* from IDLE to CONNECTED is made only by the handler of a connect command.
C13_OnlyTableTransitions ==
    [][agent_status' # agent_status =>
          /\ <<agent_status, agent_status'>> \in TableTransitions
          /\ (agent_status = "IDLE" /\ agent_status' = "CONNECTED")
                 => msg.command = "pupil_neon_connect"]_vars

\* ---- the commands and their publishes (SpecBus)

\* a status message that reports `status` and no error
StatusOf(status) == [agent_status |-> status, error |-> FALSE]

\* the payload handed to agent.publish()
Payload(pub) == [agent_status |-> pub.agent_status, error |-> pub.error]

\* no health thread has been started yet: the stop event is cleared only when a
\* thread is started, and a thread ends only once the event is set
NoHealthThreadYet == hpc = "none" /\ ~stop_health

\* the main thread takes the step at position `at` of a handler (and is not
\* interrupted there)
StepAt(at) == pc = at /\ pc' # pc /\ pc' # "run_finally"

ConnectAttempt == {"connect_device", "connect_get_template", "connect_fail_publish"}

\* the connect handler ends without binding a handle, otherwise than by a
\* KeyboardInterrupt
ConnectFails ==
    /\ pc \in ConnectAttempt
    /\ pc' \notin ConnectAttempt \cup {"connect_set_status"}
    /\ ~(pc' = "run_finally" /\ exit_code' = exit_code)

\* C15: when connecting fails, for whatever reason, the handler returns to the
\* command loop with the status IDLE, no handle bound and a status message
\* carrying an error published.
C15_ConnectFailureStaysIdle ==
    [][ConnectFails =>
          /\ pc' = "recv"
          /\ agent_status' = "IDLE"
          /\ device' = None
          /\ lastPub'.error]_vars

\* the positions of the start handler
StartHandler ==
    {"fill_template", "post_template", "start_recording", "start_set_status",
     "start_publish"}

StartFails ==
    /\ pc = "start_recording"
    /\ pc' \notin {"start_recording", "start_set_status"}
    /\ ~(pc' = "run_finally" /\ exit_code' = exit_code)

\* C17: when the recording_start call of a start command fails, the handler
\* returns to the command loop with the status CONNECTED and an error status
\* published; and the status becomes RECORDING only after a recording_start call
\* that returned.
C17_StartFailureStaysConnected ==
    [][/\ StartFails =>
            /\ pc' = "recv"
            /\ agent_status' = "CONNECTED"
            /\ lastPub'.error
       /\ (agent_status' = "RECORDING" /\ agent_status # "RECORDING")
            => pc = "start_set_status"]_vars

\* C18: no error of a call on the device made from the command loop ends the
\* loop: run() is left only by a KeyboardInterrupt, never by an exception (which
\* is what sets main's exit_code to 1).
C18_ErrorsKeepLoopRunning == exit_code = 0

\* ---- the status on the bus (SpecBus)

\* C19: every change of the status is followed by a publish of the new status
\* before the status changes again: whenever the status changes, the status it
\* had is the one of the message published last.
C19_EveryChangePublished ==
    [][agent_status' # agent_status => lastPub.agent_status = agent_status]_vars

\* the main thread is in run(), at the top of the loop or inside a handler
InRun ==
    /\ ret = "run"
    /\ pc \notin {"agent_init", "agent_init_failed", "agent_connect",
                  "init_publish", "init_set_idle", "run_finally", "main_check_status",
                  "main_check_recording", "main_stop_and_save", "main_set_shutdown",
                  "main_publish", "main_bus_disconnect", "exited"}

\* C20: while the agent runs, a heartbeat can be published whenever its period
\* has passed, wherever the command loop is: at the top of the loop and inside
\* any handler (discovery, stopping the health thread, stop-and-save).
C20_HeartbeatEveryPeriod == InRun => ENABLED Heartbeat

\* ---- the shutdown (SpecBus)

\* the health thread makes a call on the bound device: world_sensor(),
\* estimate_time_offset() or close()
MonitorCall ==
    /\ device # None
    /\ hpc \in {"check_connection_health", "estimate_start", "discard_close"}
    /\ hpc' # hpc

\* C21: once the status is SHUTDOWN no write changes it, neither thread makes a
\* call on the device any more, and the message published last when the bus is
\* disconnected reports SHUTDOWN.
C21_ShutdownTerminal ==
    [][/\ (agent_status = "SHUTDOWN") => (agent_status' = "SHUTDOWN" /\ ~MonitorCall)
       /\ StepAt("main_bus_disconnect") => lastPub.agent_status = "SHUTDOWN"]_vars

\* ---- the two threads and the handle

\* the main thread makes a call on the bound device: recording_start,
\* send_event, recording_stop_and_save or close
ControllerCall ==
    /\ device # None
    /\ pc \in {"start_recording", "send_condition_event", "send_condition_begin",
               "stop_recording", "stop_and_save", "main_stop_and_save",
               "disconnect_close"}
    /\ pc' # pc
    /\ ~(pc' = "run_finally" /\ exit_code' = exit_code)
    /\ ~(pc = "send_condition_event"
           /\ send_condition_branch(last_condition_event, msg.label) = "noop")

\* the health thread has a call of estimate_time_offset() in flight
MonitorMidCall == hpc = "estimate_wait"

\* the health thread is discarding the handle: it has decided to close it and
\* has not yet cleared the reference
MonitorDiscarding == hpc \in {"discard_close", "discard_clear"}

\* C22: the main thread starts no call on the handle while the health thread
\* has a call in flight on it or is discarding it.
C22_NoConcurrentCalls ==
    [][ControllerCall => (~MonitorMidCall /\ ~MonitorDiscarding)]_vars

\* ---- the intake of a message

\* the tokens run() compares the command with
Recognized == {"pupil_neon_connect", "pupil_neon_disconnect", "start", "stop",
               "condition"}

\* the command values that differ in letter case only
CaseVariants == {{"start", "START"}, {"stop", "Stop"},
                 {"pupil_neon_connect", "PUPIL_NEON_CONNECT"}}

\* a payload that is no record, has no command or an empty one, or whose
\* command is in no letter case a recognized token
Malformed(payload) ==
    \/ payload.shape # "dict"
    \/ payload.command \in {Missing, ""}
    \/ /\ payload.command \notin Recognized
       /\ \A v \in CaseVariants : payload.command \in v => v \cap Recognized = {}

\* a step of the main thread alone
MainStep == hpc' = hpc /\ estAbandoned' = estAbandoned /\ probe' = probe

\* C23: in every state a malformed payload selects no handler, and two payloads
\* that differ in the letter case of the command only select the same handler
\* with the same token; a handler starts only with a recognized token; a step
\* of the main thread that stays at the top of the loop changes neither the
\* status, the device, the label nor the history of calls.
C23_MalformedDropped ==
    /\ [](/\ \A payload \in Payloads :
               Malformed(payload) => Dispatch(agent_status, Intake(payload)) = "ignore"
          /\ \A p1, p2 \in Payloads :
               ( /\ p1.shape = "dict" /\ p2.shape = "dict" /\ p1.label = p2.label
                 /\ \E v \in CaseVariants : {p1.command, p2.command} \subseteq v )
               => /\ Intake(p1) = Intake(p2)
                  /\ Dispatch(agent_status, Intake(p1)) = Dispatch(agent_status, Intake(p2)))
    /\ [][/\ (pc = "recv" /\ pc' \notin {"recv", "run_finally"})
               => msg'.command \in Recognized
          /\ (pc = "recv" /\ pc' = "recv" /\ MainStep)
               => UNCHANGED <<agent_status, device, last_condition_event, trace, msg>>]_vars

\* the start handler entered with the token START
C23_Witness ==
    /\ msg.token = "START"
    /\ msg.command = "start"
    /\ pc = "start_recording"

\* ---- the command tokens

\* the message {command: token}
CommandMsg(token) == [shape |-> "dict", command |-> token, label |-> NoLabel]

\* the handler the main thread selects for {command: token} in the state
Selects(token) == Dispatch(agent_status, Intake(CommandMsg(token)))

\* the tokens connect and disconnect select the handlers
BareTokensSelect ==
    /\ agent_status = "IDLE" => Selects("connect") = "connect"
    /\ agent_status = "CONNECTED" => Selects("disconnect") = "disconnect"
    /\ agent_status = "RECORDING" => Selects("disconnect") = "stop_disconnect"

\* C24 as stated: the tokens are connect, disconnect, start, stop and condition;
\* connect in IDLE selects discovery, disconnect in CONNECTED or RECORDING the
\* release of the handle.
C24_BareTokens ==
    pc = "recv" => BareTokensSelect

\* C24: the tokens are pupil_neon_connect, pupil_neon_disconnect, start, stop and
\* condition: no other command value selects a handler, pupil_neon_connect in
\* IDLE selects discovery and goes to connect_device, pupil_neon_disconnect in
\* CONNECTED or RECORDING selects the release of the handle, and the tokens
\* connect and disconnect select nothing in any state.
C24_PrefixedTokens ==
    /\ [](/\ \A payload \in Payloads :
               Dispatch(agent_status, Intake(payload)) # "ignore"
                   => Intake(payload) \in Recognized
          /\ agent_status = "IDLE" => Selects("pupil_neon_connect") = "connect"
          /\ agent_status = "CONNECTED" => Selects("pupil_neon_disconnect") = "disconnect"
          /\ agent_status = "RECORDING"
               => Selects("pupil_neon_disconnect") = "stop_disconnect"
          /\ Selects("connect") = "ignore" /\ Selects("disconnect") = "ignore")
    /\ [][(pc = "recv" /\ pc' \notin {"recv", "run_finally"})
            => /\ msg'.command = "pupil_neon_connect" => pc' = "connect_device"
               /\ msg'.command = "pupil_neon_disconnect"
                    => pc' \in {"stop_health_loop", "stop_recording"}]_vars

\* the handle is about to be closed for a pupil_neon_disconnect taken in RECORDING
C24_Witness ==
    /\ msg.command = "pupil_neon_disconnect"
    /\ matched = "RECORDING"
    /\ pc = "disconnect_close"
    /\ device # None

\* ---- the start of the process

\* C25: when agent.init() has not reached the broker the process ends there:
\* the next step of the main thread is the exit, with no connect to the bus, no
\* publish and no command taken.
C25_InitFailureAborts ==
    [][pc = "agent_init_failed" => pc' = "exited"]_vars

\* ---- a publish that fails

\* a step in which agent.publish() is called
PublishStep == lastPub' # lastPub

\* C26: a publish changes neither the status, the device, the label nor the
\* stop event, whether it is sent or raises; one that raises does not take the
\* main thread out of run() (no exit code, no finally clause) and does not take
\* the health thread to the except clause of its loop.
C26_PublishFailureSwallowed ==
    [][PublishStep =>
          /\ UNCHANGED <<agent_status, device, last_condition_event, stop_health>>
          /\ lastPub'.raised => /\ exit_code' = exit_code
                                /\ pc' = "run_finally" => pc = "run_finally"
                                /\ hpc' = "discard_close" => hpc = "discard_close"]_vars

\* the statistics of an estimate were handed to a publish that raised, and the
\* health thread is at the sleep that ends its cycle
C26_Witness ==
    /\ lastPub.raised
    /\ hpc = "cycle_sleep"
    /\ agent_status = "CONNECTED"
    /\ device # None

\* ---- the template

\* C27: no failure in fill_template keeps the start command from calling
\* recording_start: the main thread leaves fill_template for start_recording,
\* and leaves run() from there only on a KeyboardInterrupt (exit code kept).
C27_TemplateNeverBlocksStart ==
    [][(pc \in {"fill_template", "post_template"} /\ pc' # pc)
          => \/ pc' \in {"post_template", "start_recording"}
             \/ pc' = "run_finally" /\ exit_code' = exit_code]_vars

\* ---- the probe of the health thread

\* a step of the health thread from the position
HealthStepAt(at) == hpc = at /\ hpc' # hpc

\* C28: a probe that reported "not connected" and one that raised end the same
\* way when the status read is CONNECTED or RECORDING: the status is set to
\* IDLE, a status with an error text is published, and the health thread goes
\* to its sleep and the top of the loop, not to the estimate.
C28_ProbeFailuresAlike ==
    [][/\ (HealthStepAt("health_read_status")
             /\ agent_status \in {"CONNECTED", "RECORDING"})
            => (probe \in {"not_connected", "raise"} /\ hpc' = "health_set_idle")
       /\ HealthStepAt("health_set_idle")
            => (agent_status' = "IDLE" /\ hpc' = "health_publish")
       /\ HealthStepAt("health_publish")
            => (lastPub'.error /\ hpc' = "backoff")
       /\ HealthStepAt("backoff") => hpc' = "loop"]_vars

\* a probe raised: the status has been set to IDLE and the publish of the error
\* is next
C28_Witness ==
    /\ hpc = "health_publish"
    /\ probe = "raise"
    /\ agent_status = "IDLE"
    /\ ENABLED HealthPublish

\* ---- the publishes of the health thread

\* the connection-lost publishes of the health thread since the last command
LostPublishes == {i \in Pos(trace) : IsOp(trace, i, "lost")}

\* C29: the health thread publishes an error only after it has changed the
\* status: it goes to the write of IDLE and the publish only when the status it
\* read is CONNECTED or RECORDING, and over the cycles it runs while the main
\* thread waits for a message, with no command taken from the first of them
\* on, the health thread publishes at most one lost connection.
C29_OneLostPublish ==
    /\ [](watch = "bus" => Cardinality(LostPublishes) <= 1)
    /\ [][(/\ hpc \in {"health_read_status", "discard_read_status"}
           /\ hpc' # hpc
           /\ agent_status \notin {"CONNECTED", "RECORDING"})
             => hpc' \notin {"health_set_idle", "discard_set_idle"}]_vars

\* the health thread has published a lost connection in a cycle it ran while the
\* main thread waited, and no command has come; the probe of a later cycle has
\* failed again and the status is read
C29_Witness ==
    /\ Cardinality(LostPublishes) = 1
    /\ pc = "recv"
    /\ hpc = "health_read_status"
    /\ probe \in {"not_connected", "raise"}
    /\ agent_status = "IDLE"

\* ---- the estimate that timed out

\* the step in which the abandoned calls return
AbandonedReturn == estAbandoned /\ ~estAbandoned'

\* C30: the return of an estimate_time_offset call that timed out changes
\* nothing: no publish, no change of the status, of the device reference or of
\* the label, no call on the device, and neither thread moves.
C30_AbandonedReturnInert ==
    [][AbandonedReturn =>
          UNCHANGED <<agent_status, device, last_condition_event, stop_health,
                      lastPub, trace, pc, hpc, probe, exit_code>>]_vars

\* a call that timed out is still running, its handle was discarded, and a later
\* connect has bound a handle again
C30_Witness ==
    /\ estAbandoned
    /\ device # None
    /\ agent_status = "CONNECTED"
    /\ pc = "recv"
    /\ hpc = "loop"
    /\ ENABLED AbandonedEstimateReturns

\* ---- the end of the health thread

\* the waits of the health thread: the sleep with no device, the sleep after a
\* failed check, the join on the estimate and the sleep that ends a cycle
HealthWaits == {"sleep_no_device", "backoff", "estimate_wait", "cycle_sleep"}

\* C31: with the stop event set, the health thread leaves whichever wait it is
\* in for the top of its loop, where it ends; it does nothing else first.
C31_StopEndsEveryWait ==
    [][(stop_health /\ hpc \in HealthWaits /\ hpc' # hpc)
          => hpc' \in {"loop", "none"}]_vars

\* ---- the handle at the calls of the main thread

\* the main thread is about to call recording_start, send_event or
\* recording_stop_and_save
AboutToCall ==
    \/ pc \in {"start_recording", "send_condition_begin", "stop_and_save"}
    \/ /\ pc = "send_condition_event"
       /\ send_condition_branch(last_condition_event, msg.label) # "noop"
    \/ pc = "stop_recording" /\ StopSendsEnd(last_condition_event)

\* C32: a command is dispatched in CONNECTED or RECORDING only with a device
\* bound, and the device is bound whenever the main thread is about to call
\* recording_start, send_event or recording_stop_and_save on it.
C32_HandleBoundAtCalls ==
    /\ [](AboutToCall => device # None)
    /\ [][(pc = "recv" /\ pc' \notin {"recv", "run_finally"}
             /\ matched' \in {"CONNECTED", "RECORDING"}) => device # None]_vars

\* ---- the handle in IDLE

\* neither thread is inside a step sequence that works on the handle: the main
\* thread waits for a message, the health thread is absent or between cycles
Quiet ==
    /\ pc = "recv"
    /\ hpc \in {"none", "loop", "sleep_no_device", "backoff", "cycle_sleep"}

\* C33: with the status IDLE and both threads at rest no device is bound, and
\* connect_device binds a handle only where none is bound.
C33_IdleHasNoHandle ==
    /\ []((agent_status = "IDLE" /\ Quiet) => device = None)
    /\ [][(pc = "connect_get_template" /\ pc' = "connect_set_status")
            => device = None]_vars

\* ---- the life of the health thread

\* C34: when start_health_loop returns after a successful connect, a health
\* thread is alive and the stop event is clear.
C34_MonitorRunsAfterConnect ==
    [][StepAt("start_health_loop") => (hpc' # "none" /\ ~stop_health')]_vars

\* the health thread writes the status or the device reference
MonitorWrite ==
    /\ hpc' # hpc
    /\ agent_status' # agent_status \/ device' # device

\* C35: from the return of stop_health_loop on (the stop event is set) the
\* health thread makes no call on the device and writes neither the status nor
\* the device reference.
C35_MonitorSilentAfterStop ==
    [][stop_health => (~MonitorCall /\ ~MonitorWrite)]_vars

\* C36: start_health_loop starts a thread only when none is alive: with a thread
\* alive it leaves the thread where it is and the stop event as it is.
C36_OneMonitorThread ==
    [][(StepAt("start_health_loop") /\ hpc # "none")
          => (hpc' = hpc /\ stop_health' = stop_health)]_vars

\* a reconnect reaches start_health_loop with the thread of the connection
\* before still alive, its stop event set
C36_Witness ==
    /\ pc = "start_health_loop"
    /\ hpc \notin {"none", "loop"}
    /\ stop_health
    /\ agent_status = "CONNECTED"

\* ---- the web server (SpecWeb)

\* the acquisitions whose record says running
RunningRecords == {k \in DOMAIN acquisitions : acquisitions[k].status = "running"}

C38_FreshIds ==
    [][/\ (start_acquisition /\ current_acquisition_id = NoId)
            => /\ FormatId(next_id) \notin DOMAIN acquisitions
               /\ FormatId(next_id) \notin assigned
               /\ assigned' = assigned \cup {FormatId(next_id)}
               /\ next_id' > next_id
       /\ next_id' >= next_id]_vars

\* two ids were generated, one of them by a /start that failed, with acq_2 in
\* the index file from the start
C38_Witness ==
    /\ Cardinality(assigned) >= 2
    /\ AcqId("plain", 2) \in DOMAIN acquisitions
    /\ acquisitions[AcqId("plain", 2)].status = "completed"
    /\ \E id \in assigned : id \notin DOMAIN acquisitions

\* the condition id of the last entry of a record, "" without entries
LastEntryId(conditions) ==
    IF conditions = <<>> THEN "" ELSE conditions[Len(conditions)].condition_id

\* the step is a /save_condition that appends an entry or publishes
SaveConditionActs ==
    /\ save_condition
    /\ acquisitions' # acquisitions \/ ws_command' # ws_command

\* C39: a /save_condition that appends or publishes appends one entry to its
\* target, with a condition id other than the one of the target's last entry,
\* and publishes no command but a condition command with that id; one that asks
\* for the condition id of the target's last entry appends and publishes
\* nothing.
C39_RepeatedConditionSkipped ==
    [][/\ SaveConditionActs =>
            LET target == webLast'.id
                before == acquisitions[target].conditions
                after == acquisitions'[target].conditions
            IN /\ after = Append(before, after[Len(after)])
               /\ after[Len(after)].condition_id = webLast'.condition_id
               /\ webLast'.condition_id # LastEntryId(before)
               /\ ws_command' # ws_command =>
                     ws_command' = Append(ws_command,
                         Payload_ws("condition", 0, webLast'.condition_id))
       /\ ( /\ save_condition
            /\ webLast'.status # "error"
            /\ webLast'.condition_id = LastEntryId(acquisitions[webLast'.id].conditions) )
            => UNCHANGED <<acquisitions, ws_command>>]_vars

\* a /save_condition repeated the condition of the last entry of the current
\* acquisition, after that condition was published
C39_Witness ==
    /\ webLast.req = "save_condition"
    /\ webLast.status = "unchanged"
    /\ webLast.id = current_acquisition_id
    /\ webLast.condition_id = LastEntryId(acquisitions[webLast.id].conditions)
    /\ \E i \in 1..Len(ws_command) :
          ws_command[i] = Payload_ws("condition", 0, webLast.condition_id)

====
